---- MODULE Spec2Model ----
(***************************************************************************)
(* influx2mqtt-graph-designer: a bridge that, on a trigger message from an *)
(* MQTT broker, queries seven 1-day windows of an InfluxDB store, turns    *)
(* the yielded samples into an index -> value dict and publishes the       *)
(* dict's string form.  The module models Model (store client), API        *)
(* (broker client) and GraphDesigner (bridge) of                           *)
(* src/influx2mqtt-graph-designer.py as one sequential process whose       *)
(* position is pc; the store, the broker and the operator's interrupt are  *)
(* the environment and supply the nondeterministic inputs.                 *)
(***************************************************************************)
EXTENDS Integers, Sequences, FiniteSets, TLC

(***************************************************************************)
(* Bounds of the model.                                                    *)
(***************************************************************************)
MaxMessages == 2      \* messages the broker delivers in one run
MaxConnacks == 2      \* invocations of the connect callback in one run

(***************************************************************************)
(* Configuration (the [mqtt] section of the ini file) and the inputs the   *)
(* environment draws from.                                                 *)
(***************************************************************************)
configuration ==
    [trigger |-> "graph/trigger", post |-> "graph/post",
     username |-> "user", password |-> "secret"]

\* topics a delivered message can carry
Topics == {configuration.trigger, configuration.post, "other/topic"}

\* result codes the transport hands to the connect callback (0 = accepted)
ResultCodes == {0, 5}

\* The (start, stop) pairs get_data iterates over, in the order of the source.
Windows ==
    << <<"-1d", "0d">>, <<"-2d", "-1d">>, <<"-3d", "-2d">>,
       <<"-4d", "-3d">>, <<"-5d", "-4d">>, <<"-6d", "-5d">>, <<"-7d", "-6d">> >>

\* What QueryApi.query can return for one window: a list of tables, each a
\* list of record values.  Values are in tenths (25 is 2.5), so that int()
\* is a real conversion.  The list may be empty, and a table may hold no
\* record.
Responses ==
    { << >>,                        \* no table at all
      << << >> >>,                  \* one table without records
      << <<30>>, <<70, 25>> >> }    \* two tables, records 3.0 | 7.0, 2.5

\* outcomes of mqtt_client.Client.connect
ConnectOutcomes == {"ok", "ConnectionError", "KeyboardInterrupt"}

VARIABLES
    pc,              \* position of the process
    modelApi,        \* Model.api is set (Model.connect has run)
    callbacks,       \* on_connect / on_message are registered on the client
    credentials,     \* username_pw_set has run on the client
    connectAttempts, \* log of the broker connect calls
    loopEntered,     \* loop_forever has been called
    uncaught,        \* the exception that left start(), "none" if none
    connacks,        \* number of invocations of the connect callback
    lastRc,          \* result code of its last invocation, -1 before the first
    subscriptions,   \* topics passed to subscribe, in order
    delivered,       \* number of messages handed to on_message
    lastTopic,       \* topic of the message handed to on_message last
    triggerMsgs,     \* number of those messages that were on the trigger topic
    w,               \* get_data: index of the next window to query
    queries,         \* get_data: windows queried by the current invocation
    responses,       \* get_data: what the store returned, per window
    yielded,         \* get_data: what the generator yielded, per window
    data,            \* make: the tuple built from the generator
    result,          \* make: the dict, as a sequence of [k, v] items
    published,       \* publishes issued by the current callback invocation
    queryCount,      \* number of QueryApi.query calls so far
    makeCount,       \* number of GraphDesigner.make calls so far
    pubCount,        \* number of publish calls so far
    handled,         \* number of trigger messages whose callback returned
    interruptedIn    \* position at which the loop was interrupted, or "none"

vars ==
    << pc, modelApi, callbacks, credentials, connectAttempts, loopEntered,
       uncaught, connacks, lastRc, subscriptions, delivered, lastTopic,
       triggerMsgs, w, queries, responses, yielded, data, result, published,
       queryCount, makeCount, pubCount, handled, interruptedIn >>

startVars == << modelApi, callbacks, credentials, connectAttempts, loopEntered >>
brokerVars ==
    << connacks, lastRc, subscriptions, delivered, lastTopic, triggerMsgs >>
queryVars == << w, queries, responses, yielded, queryCount >>
makeVars == << data, result, makeCount >>
sendVars == << published, pubCount, handled >>

(***************************************************************************)
(* Pure helpers.                                                           *)
(***************************************************************************)
Digit(d) ==
    CASE d = 0 -> "0" [] d = 1 -> "1" [] d = 2 -> "2" [] d = 3 -> "3"
      [] d = 4 -> "4" [] d = 5 -> "5" [] d = 6 -> "6" [] d = 7 -> "7"
      [] d = 8 -> "8" [] d = 9 -> "9"

\* f'{n}' / str(n) of a Python int
RECURSIVE IntToStr(_)
IntToStr(n) ==
    IF n < 0 THEN "-" \o IntToStr(-n)
    ELSE IF n < 10 THEN Digit(n)
    ELSE IntToStr(n \div 10) \o Digit(n % 10)

\* int(record.get_value()): truncation toward zero of a value in tenths
PyInt(x) == IF x >= 0 THEN x \div 10 ELSE -((-x) \div 10)

RECURSIVE Flatten(_)
Flatten(ss) == IF ss = << >> THEN << >> ELSE Head(ss) \o Flatten(Tail(ss))

\* the values of all records of all tables, in table order
TableValues(tables) ==
    Flatten([t \in 1..Len(tables) |->
                [r \in 1..Len(tables[t]) |-> PyInt(tables[t][r])]])

\* The body of get_data's loop for one window: the values it yields for what
\* the store returned.
WindowYield(tables) ==
    IF Len(tables) > 0 THEN TableValues(tables) ELSE <<0>>

\* result[k] = v on a dict kept in insertion order
DictSet(d, k, v) ==
    IF \E i \in 1..Len(d) : d[i].k = k
    THEN [i \in 1..Len(d) |-> IF d[i].k = k THEN [k |-> k, v |-> v] ELSE d[i]]
    ELSE Append(d, [k |-> k, v |-> v])

\* A faulty variant: enumerate counting from one
MakeKeyFromOne(nr) == IntToStr(nr + 1)

\* the key make() stores the nr-th (zero-based) sample under
MakeKey(nr) == IntToStr(nr)

\* make(): result = {} followed by the enumerate loop over data
RECURSIVE MakeLoop(_, _, _)
MakeLoop(d, tuple, nr) ==
    IF nr >= Len(tuple) THEN d
    ELSE MakeLoop(DictSet(d, MakeKey(nr), tuple[nr + 1]), tuple, nr + 1)

MakeResult(tuple) == MakeLoop(<< >>, tuple, 0)

\* str() of a dict with str keys and int values: {'0': 3, '1': 7}
RECURSIVE DictItems(_)
DictItems(d) ==
    IF d = << >> THEN ""
    ELSE "'" \o Head(d).k \o "': " \o IntToStr(Head(d).v)
         \o (IF Len(d) > 1 THEN ", " ELSE "") \o DictItems(Tail(d))

DictStr(d) == "{" \o DictItems(d) \o "}"

(***************************************************************************)
(* Initial state: the objects are constructed, start() has not run.        *)
(***************************************************************************)
Init ==
    /\ pc = "start"
    /\ modelApi = FALSE
    /\ callbacks = FALSE
    /\ credentials = FALSE
    /\ connectAttempts = << >>
    /\ loopEntered = FALSE
    /\ uncaught = "none"
    /\ connacks = 0
    /\ lastRc = -1
    /\ subscriptions = << >>
    /\ delivered = 0
    /\ lastTopic = "none"
    /\ triggerMsgs = 0
    /\ w = 0
    /\ queries = << >>
    /\ responses = << >>
    /\ yielded = << >>
    /\ data = << >>
    /\ result = << >>
    /\ published = << >>
    /\ queryCount = 0
    /\ makeCount = 0
    /\ pubCount = 0
    /\ handled = 0
    /\ interruptedIn = "none"

(***************************************************************************)
(* GraphDesigner.start, first statement: Model.connect().                  *)
(***************************************************************************)
ModelConnect ==
    /\ pc = "start"
    /\ modelApi' = TRUE
    /\ pc' = "api_connect"
    /\ UNCHANGED << callbacks, credentials, connectAttempts, loopEntered,
                    uncaught, interruptedIn >>
    /\ UNCHANGED << brokerVars, queryVars, makeVars, sendVars >>

\* A faulty variant: the except clause swallows every exception of the connect call
ConnectCatchesAll(exc) == exc \in ConnectOutcomes

\* the except clause of API.connect
ConnectCatches(exc) == exc = "KeyboardInterrupt"

(***************************************************************************)
(* API.connect, whole method.  It runs twice in one start(): called by     *)
(* start() itself and again as the first statement of sub_loop().          *)
(***************************************************************************)
APIConnect(outcome) ==
    /\ pc \in {"api_connect", "sub_loop"}
    /\ callbacks' = TRUE
    /\ connectAttempts' =
         Append(connectAttempts,
                [outcome |-> outcome, credentials |-> credentials,
                 callbacks |-> TRUE, store |-> modelApi])
    /\ IF outcome = "ok" \/ ConnectCatches(outcome)
       THEN /\ credentials' = TRUE
            /\ uncaught' = uncaught
            /\ IF pc = "api_connect"
               THEN pc' = "sub_loop" /\ loopEntered' = loopEntered
               ELSE pc' = "loop" /\ loopEntered' = TRUE
       ELSE /\ credentials' = credentials
            /\ uncaught' = outcome
            /\ pc' = "crashed"
            /\ loopEntered' = loopEntered
    /\ UNCHANGED << modelApi, interruptedIn >>
    /\ UNCHANGED << brokerVars, queryVars, makeVars, sendVars >>

\* A faulty variant: the refused branch of the callback does not subscribe
OnConnectTopicsAcceptedOnly(rc) ==
    IF rc = 0 THEN << configuration.trigger >> ELSE << >>

\* the topics API.__on_connect subscribes to, for a result code
OnConnectTopics(rc) ==
    IF rc = 0 THEN << configuration.trigger >> ELSE << configuration.trigger >>

(***************************************************************************)
(* API.__on_connect, dispatched by loop_forever.                           *)
(***************************************************************************)
OnConnect(rc) ==
    /\ pc = "loop"
    /\ connacks < MaxConnacks
    /\ connacks' = connacks + 1
    /\ lastRc' = rc
    /\ subscriptions' = subscriptions \o OnConnectTopics(rc)
    /\ UNCHANGED << pc, uncaught, interruptedIn, delivered, lastTopic,
                    triggerMsgs >>
    /\ UNCHANGED << startVars, queryVars, makeVars, sendVars >>

\* A faulty variant: the callback does not look at the topic
IsTriggerAnyTopic(topic) == topic \in Topics

\* the test of API.__on_message
IsTrigger(topic) == topic = configuration.trigger

(***************************************************************************)
(* API.__on_message, dispatched by loop_forever.  For the trigger topic it *)
(* calls trigger_func (GraphDesigner.make), which starts consuming         *)
(* Model.get_data; for any other topic it returns after logging.           *)
(* The broker delivers nothing before the client has subscribed.           *)
(***************************************************************************)
OnMessage(topic) ==
    /\ pc = "loop"
    /\ subscriptions # << >>
    /\ delivered < MaxMessages
    /\ delivered' = delivered + 1
    /\ lastTopic' = topic
    /\ triggerMsgs' =
         IF topic = configuration.trigger THEN triggerMsgs + 1 ELSE triggerMsgs
    /\ published' = << >>
    /\ queries' = << >>
    /\ responses' = << >>
    /\ yielded' = << >>
    /\ data' = << >>
    /\ result' = << >>
    /\ IF IsTrigger(topic)
       THEN /\ makeCount' = makeCount + 1
            /\ w' = 1
            /\ pc' = "get_data"
       ELSE /\ makeCount' = makeCount
            /\ w' = 0
            /\ pc' = "loop"
    /\ UNCHANGED << uncaught, interruptedIn, connacks, lastRc, subscriptions,
                    queryCount, pubCount, handled >>
    /\ UNCHANGED startVars

(***************************************************************************)
(* Model.get_data, one iteration of its loop: query a window, yield.       *)
(***************************************************************************)
GetDataStep(tables) ==
    /\ pc = "get_data"
    /\ w <= Len(Windows)
    /\ queries' = Append(queries, Windows[w])
    /\ queryCount' = queryCount + 1
    /\ responses' = Append(responses, tables)
    /\ yielded' = Append(yielded, WindowYield(tables))
    /\ w' = w + 1
    /\ pc' = IF w = Len(Windows) THEN "make" ELSE "get_data"
    /\ UNCHANGED << uncaught, interruptedIn >>
    /\ UNCHANGED << startVars, brokerVars, makeVars, sendVars >>

\* An exception leaving the callback unwinds make() and get_data(): their
\* locals are gone.
Unwind ==
    /\ w' = 0
    /\ queries' = << >>
    /\ responses' = << >>
    /\ yielded' = << >>
    /\ data' = << >>
    /\ result' = << >>

(***************************************************************************)
(* QueryApi.query raises.  Nothing between the generator and start()       *)
(* catches it: the exception leaves loop_forever, sub_loop and start.      *)
(***************************************************************************)
QueryError ==
    /\ pc = "get_data"
    /\ w <= Len(Windows)
    /\ queryCount' = queryCount + 1
    /\ uncaught' = "QueryError"
    /\ pc' = "crashed"
    /\ Unwind
    /\ UNCHANGED << interruptedIn, makeCount, published, pubCount, handled >>
    /\ UNCHANGED << startVars, brokerVars >>

(***************************************************************************)
(* GraphDesigner.make after the generator is exhausted: the tuple, the     *)
(* dict, return.                                                           *)
(***************************************************************************)
MakeReturn ==
    /\ pc = "make"
    /\ data' = Flatten(yielded)
    /\ result' = MakeResult(Flatten(yielded))
    /\ pc' = "send"
    /\ UNCHANGED << makeCount, uncaught, interruptedIn >>
    /\ UNCHANGED << startVars, brokerVars, queryVars, sendVars >>

\* A faulty variant: the result goes back to the topic the trigger came from
SendCallsToTrigger(d) ==
    << [topic |-> configuration.trigger, payload |-> DictStr(d)] >>

\* the publishes API.__on_message issues for the dict make() returned
SendCalls(d) == << [topic |-> configuration.post, payload |-> DictStr(d)] >>

(***************************************************************************)
(* API.__on_message, after make() returned: send(), then back to the loop. *)
(***************************************************************************)
Send ==
    /\ pc = "send"
    /\ published' = published \o SendCalls(result)
    /\ pubCount' = pubCount + Len(SendCalls(result))
    /\ handled' = handled + 1
    /\ pc' = "loop"
    /\ UNCHANGED << uncaught, interruptedIn >>
    /\ UNCHANGED << startVars, brokerVars, queryVars, makeVars >>

\* A faulty variant: loop_forever runs outside any try
SubLoopCatchesNothing(exc) == exc = "none"

\* the except clause of API.sub_loop
SubLoopCatches(exc) == exc = "KeyboardInterrupt"

(***************************************************************************)
(* KeyboardInterrupt while loop_forever runs, idle or inside the message   *)
(* callback.  It propagates to sub_loop's try; when caught, sub_loop and   *)
(* start return and the process ends.                                      *)
(***************************************************************************)
Interrupt ==
    /\ pc \in {"loop", "get_data", "make", "send"}
    /\ interruptedIn' = pc
    /\ IF SubLoopCatches("KeyboardInterrupt")
       THEN pc' = "stopped" /\ uncaught' = uncaught
       ELSE pc' = "crashed" /\ uncaught' = "KeyboardInterrupt"
    /\ Unwind
    /\ UNCHANGED << queryCount, makeCount, published, pubCount, handled >>
    /\ UNCHANGED << startVars, brokerVars >>

Next ==
    \/ ModelConnect
    \/ \E outcome \in ConnectOutcomes : APIConnect(outcome)
    \/ \E rc \in ResultCodes : OnConnect(rc)
    \/ \E topic \in Topics : OnMessage(topic)
    \/ \E tables \in Responses : GetDataStep(tables)
    \/ QueryError
    \/ MakeReturn
    \/ Send
    \/ Interrupt

Spec == Init /\ [][Next]_vars

(***************************************************************************)
(* Properties.                                                             *)
(***************************************************************************)
\* C1: a delivered message whose topic is not the trigger topic starts no
\* make(), no store query and no publish; the callback returns to the loop
\* with all three counts as they were.
C1_NonTriggerIgnored ==
    [][(delivered' = delivered + 1 /\ lastTopic' # "graph/trigger")
         => /\ makeCount' = makeCount
            /\ queryCount' = queryCount
            /\ pubCount' = pubCount
            /\ pc' = "loop"]_vars

C1_Witness ==
    /\ pc = "loop"
    /\ delivered = 2
    /\ lastTopic = "graph/post"
    /\ triggerMsgs = 1
    /\ makeCount = 1
    /\ pubCount = 1

KeyNames ==
    << "0", "1", "2", "3", "4", "5", "6", "7", "8", "9", "10", "11", "12",
       "13", "14", "15", "16", "17", "18", "19", "20", "21", "22", "23",
       "24", "25", "26", "27", "28", "29" >>

RECURSIVE YieldCount(_)
YieldCount(ys) == IF ys = << >> THEN 0 ELSE Len(Head(ys)) + YieldCount(Tail(ys))

\* C3: when make() returns, the dict has one item per yielded sample, its
\* keys are "0" .. "n-1" in order and the item at position i holds the i-th
\* yielded sample; this holds for every invocation, whatever came before.
C3_MakeEnumerates ==
    pc = "send" =>
        /\ Len(data) = YieldCount(yielded)
        /\ Len(result) = Len(data)
        /\ \A i \in 1..Len(data) :
              /\ result[i].k = KeyNames[i]
              /\ result[i].v = data[i]
        /\ \A i \in 1..Len(yielded) : \A j \in 1..Len(yielded[i]) :
              data[YieldCount(SubSeq(yielded, 1, i - 1)) + j] = yielded[i][j]

C3_Witness ==
    /\ pc = "send"
    /\ makeCount = 2
    /\ handled = 1
    /\ Len(data) = 12
    /\ result[12] = [k |-> "11", v |-> 2]

RECURSIVE RowCount(_)
RowCount(tables) ==
    IF tables = << >> THEN 0 ELSE Len(Head(tables)) + RowCount(Tail(tables))

ExpectedWindow(i) ==
    << "-" \o KeyNames[i + 1] \o "d",
       IF i = 1 THEN "0d" ELSE "-" \o KeyNames[i] \o "d" >>

\* C4 as stated: the windows are queried from -1d..0d back to -7d..-6d; a
\* window for which the store returned no row yields exactly one 0; every
\* window yields at least one value, so a finished invocation yields at least
\* seven.
C4_SentinelPerEmptyWindow ==
    /\ \A i \in 1..Len(queries) : queries[i] = ExpectedWindow(i)
    /\ \A i \in 1..Len(responses) :
          /\ RowCount(responses[i]) = 0 => yielded[i] = <<0>>
          /\ Len(yielded[i]) >= 1
    /\ pc = "send" => Len(data) >= 7

\* C5 as stated: the process leaves RUNNING only on an interrupt or on a
\* failed connect; an error of a trigger's store query never ends it.
C5_TriggerErrorIsolated ==
    pc \in {"stopped", "crashed"} =>
        \/ interruptedIn # "none"
        \/ \E i \in 1..Len(connectAttempts) :
              connectAttempts[i].outcome = "ConnectionError"

\* C6: a connection error of a broker connect call leaves start() as that
\* error; no further connect call is made and loop_forever is never entered,
\* so no callback ever runs.
C6_ConnectFailureRaised ==
    \A i \in 1..Len(connectAttempts) :
        connectAttempts[i].outcome = "ConnectionError" =>
            /\ i = Len(connectAttempts)
            /\ pc = "crashed"
            /\ uncaught = "ConnectionError"
            /\ ~loopEntered
            /\ connacks = 0
            /\ delivered = 0

C6_Witness ==
    /\ Len(connectAttempts) = 2
    /\ connectAttempts[1].outcome = "ok"
    /\ connectAttempts[2].outcome = "ConnectionError"
    /\ pc = "crashed"

\* C7 as stated: after a KeyboardInterrupt in a broker connect call no other
\* connect call is made and loop_forever is not entered.
C7_ConnectInterruptShutsDown ==
    \A i \in 1..Len(connectAttempts) :
        connectAttempts[i].outcome = "KeyboardInterrupt" =>
            /\ i = Len(connectAttempts)
            /\ ~loopEntered

\* C8: a KeyboardInterrupt while loop_forever runs, idle or inside the
\* message callback, is caught by sub_loop: start() returns without an
\* exception, the process is stopped, and nothing is dispatched, queried or
\* published afterwards.
C8_LoopInterruptStops ==
    /\ [](interruptedIn # "none" => (pc = "stopped" /\ uncaught = "none"))
    /\ [][interruptedIn # "none"
            => /\ delivered' = delivered
               /\ connacks' = connacks
               /\ queryCount' = queryCount
               /\ pubCount' = pubCount]_vars

C8_Witness ==
    /\ interruptedIn = "get_data"
    /\ pc = "stopped"
    /\ uncaught = "none"
    /\ queryCount = 3

\* C9: every invocation of the connect callback, whatever its result code,
\* subscribes exactly once, to the trigger topic; nothing else is ever
\* subscribed to.
C9_AlwaysSubscribesTrigger ==
    /\ Len(subscriptions) = connacks
    /\ \A i \in 1..Len(subscriptions) : subscriptions[i] = "graph/trigger"

C9_Witness ==
    /\ connacks = 2
    /\ lastRc = 5
    /\ subscriptions = << "graph/trigger", "graph/trigger" >>

\* C10 as stated: every broker connect call is made with the credentials set
\* and both callbacks registered, after the store connect, and the receive
\* loop is entered only after a broker connect call.
C10_CredentialsBeforeConnect ==
    /\ \A i \in 1..Len(connectAttempts) :
          /\ connectAttempts[i].credentials
          /\ connectAttempts[i].callbacks
          /\ connectAttempts[i].store
    /\ loopEntered => Len(connectAttempts) >= 1
====
